---- MODULE Spec2Model ----
(***************************************************************************)
(* State-machine model of the IT asset inventory (src/utils.py), its GLPI  *)
(* REST client (src/glpi_client.py) and the page handlers that drive them  *)
(* (src/pages.py).                                                         *)
(*                                                                         *)
(* The SQLite tables assets and recycle_bin are sets of rows (records);    *)
(* AUTOINCREMENT keys are counters.  SQL NULL / Python None is the value   *)
(* NULL for TEXT columns and NullId for INTEGER columns.  Every handler of *)
(* utils.py is one action: it opens a connection, runs its statements and  *)
(* commits or returns before the page handler continues.                   *)
(***************************************************************************)
EXTENDS Integers, Sequences, FiniteSets, TLC

\* ------------------------------------------------------------------ bounds
\* number of operator actions (button presses) in one behaviour; the value
\* of the step counter also serves as CURRENT_TIMESTAMP
MaxSteps == 4
\* size of the remote GLPI collection
MaxRemote == 3
\* the operator presses "Fetch GLPI Computers" within the first FetchBy + 1
\* actions; the fetch neither reads nor writes the local store, so fetching
\* early and synchronising late covers a later fetch
FetchBy == 1

\* ------------------------------------------------------------- constants
\* page_size of get_computers, scaled down from 1000
page_size == 2

\* ------------------------------------------------------------ SQL values
NULL == "<NULL>"
NullId == 0
Today == "today"

\* Python truthiness of an optional string: None and "" are falsy
Truthy(s) == s # NULL /\ s # ""

\* SQL "col = ?" : a comparison with NULL on either side matches no row
SqlEq(col, param) == col # NULL /\ param # NULL /\ col = param
SqlEqId(col, param) == col # NullId /\ param # NullId /\ col = param

\* ------------------------------------------------------- remote records
\* a key missing from a remote record, and the NaN pandas puts in its place
ABSENT == "<ABSENT>"
NAN == "<NaN>"
RemoteKeys == { "id", "computermodels_id", "serial", "computertypes_id", "states_id",
                "users_id", "manufacturers_id", "date_mod", "date_creation" }

RemoteFull ==
  [ id |-> "1", computermodels_id |-> "ThinkPad", serial |-> "SN1",
    computertypes_id |-> "Notebook", states_id |-> "In Use", users_id |-> "bob",
    manufacturers_id |-> "Lenovo", date_mod |-> "2024-05-05 10:00:00",
    date_creation |-> "2024-01-01 09:00:00" ]
\* a sparse record: empty model, null serial and modification date, no
\* type, state, user or manufacturer
RemoteSparse ==
  [ id |-> "2", computermodels_id |-> "", serial |-> NULL,
    computertypes_id |-> ABSENT, states_id |-> ABSENT, users_id |-> ABSENT,
    manufacturers_id |-> ABSENT, date_mod |-> NULL,
    date_creation |-> "2024-02-02 08:00:00" ]
\* a record the remote system has not given an identifier yet
RemoteNoId == [ RemoteFull EXCEPT !.id = NULL ]
RemoteRows == { RemoteFull, RemoteSparse, RemoteNoId }

RECURSIVE SeqsUpTo(_, _)
SeqsUpTo(S, n) ==
  IF n = 0 THEN { << >> }
  ELSE LET shorter == SeqsUpTo(S, n - 1)
       IN shorter \cup { Append(q, x) : q \in { t \in shorter : Len(t) = n - 1 }, x \in S }
RemoteCollections == SeqsUpTo(RemoteRows, MaxRemote)

\* get_computers' total_count = None, its result before any fetch, and
\* st.session_state.glpi_df = None
NoCount == -1
NoFetch == [ computers |-> << >>, none |-> TRUE, error |-> FALSE ]
NoDf == [ none |-> TRUE, rows |-> << >> ]

\* int() of a value: the parsed integer, or NullId when int() raises
ParseInt(v) ==
  CASE v = "0" -> 0 [] v = "1" -> 1 [] v = "2" -> 2 [] v = "3" -> 3
    [] v = "4" -> 4 [] v = "5" -> 5 [] OTHER -> -1
\* str() of a value
PyStr(v) == IF v = NULL THEN "None" ELSE IF v = NAN THEN "nan" ELSE v
\* the decimal numeral of a small natural number
Numeral(n) == << "0", "1", "2", "3", "4", "5" >>[n + 1]

\* ------------------------------------------------------- table definitions
\* column order of CREATE TABLE assets (image_blob, location, comment are
\* never read by the modelled handlers and are left out)
AssetCols ==
  << "id", "asset_tag", "glpi_id", "category", "model", "serial_number",
     "status", "assigned_to", "purchase_date", "price", "warranty_date",
     "vendor", "last_audit_date", "department", "specs", "last_updated" >>

\* column order of CREATE TABLE recycle_bin
BinCols ==
  << "id", "asset_tag", "glpi_id", "category", "model", "serial_number",
     "status", "assigned_to", "purchase_date", "price", "deleted_at" >>

\* row[i] of a "SELECT *" result: positional access, zero based
AssetCol(row, i) == row[AssetCols[i + 1]]
BinCol(row, i) == row[BinCols[i + 1]]

VARIABLES
  assets,        \* table assets: set of rows
  recycle_bin,   \* table recycle_bin: set of rows
  nextId,        \* sqlite_sequence of assets
  nextBinId,     \* sqlite_sequence of recycle_bin
  history,       \* table history: sequence of [asset_tag, action]
  borrow_logs,   \* table borrow_logs: sequence of [asset_tag, borrower_name, action]
  maintenance_logs, \* table maintenance_logs: sequence of [asset_tag, status]
  steps,         \* number of operator actions so far; the clock
  last,          \* the last handler that ran, its key arguments and outcome
  gpc,           \* position of the "Fetch GLPI Computers" handler
  remote,        \* the Computer collection the GLPI server holds
  session_token, \* GlpiApi.session_token
  computers,     \* get_computers: the list built so far
  total_count,   \* get_computers: total read from Content-Range, or NoCount
  range_start,   \* get_computers: start of the next page
  n_requests,    \* page requests issued by the running get_computers
  fetched,       \* what get_computers returned: (computers, error)
  glpi_df,       \* st.session_state.glpi_df
  response,      \* outcome of the last HTTP request the client made
  pending        \* per operator session: the add_asset call between its
                 \* duplicate check and its INSERT

storeVars == << assets, recycle_bin, nextId, nextBinId, history, borrow_logs, maintenance_logs >>
clientVars == << gpc, remote, session_token, computers, total_count, range_start,
                n_requests, fetched, glpi_df, response >>
vars == << assets, recycle_bin, nextId, nextBinId, history, borrow_logs, maintenance_logs,
           steps, last, gpc, remote, session_token, computers, total_count, range_start,
           n_requests, fetched, glpi_df, response, pending >>

\* ------------------------------------------------------------- inputs
Tags == { NULL, "", "A" }
\* the tag a form's text input delivers
AddTags == { "", "A" }
\* the original_tag argument of update_asset (None is its default)
OrigTags == { NULL, "A" }
GlpiIds == { NullId, 1, 2 }
\* the glpi_id argument of add_asset (None is its default)
AddGlpiIds == { NullId, 1 }
\* the tag arguments of the borrow / return and of the repair / audit pages
WorkTags == { NULL, "A" }
RepairTags == { NULL, "A" }
Borrowers == { "", "bob" }
Vendors == { "", "fixit" }

\* the free-form fields of the add / manage forms
FormOk ==
  [ cat |-> "Laptop", model |-> "M1", serial |-> "S1", status |-> "In Stock",
    assigned |-> "", p_date |-> "2024-01-01", price |-> 500,
    warranty |-> "2027-01-01", vendor |-> "V1", dept |-> "Finance",
    specs |-> "8GB" ]
FormBlankModel == [ FormOk EXCEPT !.model = " " ]
FormNegPrice == [ FormOk EXCEPT !.price = -1 ]
FormEdit ==
  [ cat |-> "Desktop", model |-> "M9", serial |-> "S9", status |-> "Retired",
    assigned |-> "ann", p_date |-> "2023-03-03", price |-> 900,
    warranty |-> "2028-01-01", vendor |-> "V9", dept |-> "HR",
    specs |-> "16GB" ]
AddForms == { FormOk, FormBlankModel, FormNegPrice }
UpdateForms == { FormEdit, FormBlankModel, FormNegPrice }

\* str.strip() on the modelled strings
Strip(s) == IF s = " " THEN "" ELSE s

\* a price check that accepts every number
validate_priceAny(price) == TRUE

\* validate_price: float(price) >= 0
validate_price(price) == price >= 0

\* log_action: str(tag) if tag else "Unknown"
LogTag(tag) == IF Truthy(tag) THEN tag ELSE "Unknown"
log_action(h, tag, action) == Append(h, [ asset_tag |-> LogTag(tag), action |-> action ])

\* the record of the last call: ret is the returned success flag ("True",
\* "False") or "None"
\* for a handler that returns nothing; a sync run also records its three
\* counters, the positions whose write raised, and how many sync runs in a
\* row it ends; soft_delete records the row it fetched and archived
NoOp == [ op |-> "none", ret |-> "None", tag |-> NULL, glpi_id |-> NullId,
          orig |-> NULL, ins |-> 0, upd |-> 0, err |-> 0, faults |-> {}, streak |-> 0,
          rows |-> {} ]

\* the browser sessions of the operators, and a session with no call in
\* progress
Sessions == { 1, 2 }
NoCall == [ pc |-> "idle", tag |-> NULL, f |-> FormOk, glpi_id |-> NullId ]
Ret(op, ret, tag, g) == [ NoOp EXCEPT !.op = op, !.ret = ret, !.tag = tag, !.glpi_id = g ]

Init ==
  /\ assets = {}
  /\ recycle_bin = {}
  /\ nextId = 1
  /\ nextBinId = 1
  /\ history = << >>
  /\ borrow_logs = << >>
  /\ maintenance_logs = << >>
  /\ steps = 0
  /\ last = NoOp
  /\ gpc = "idle"
  /\ remote = << >>
  /\ session_token = NULL
  /\ computers = << >>
  /\ total_count = NoCount
  /\ range_start = 0
  /\ n_requests = 0
  /\ fetched = NoFetch
  /\ glpi_df = NoDf
  /\ response = "none"
  /\ pending = [ s \in Sessions |-> NoCall ]

\* one operator action: the page handlers run one at a time, so no handler
\* starts while a fetch is in progress or another handler is between its
\* check and its write; the action advances the clock
Tick ==
  /\ gpc = "idle"
  /\ \A s \in Sessions : pending[s].pc = "idle"
  /\ steps < MaxSteps
  /\ steps' = steps + 1
  /\ UNCHANGED pending
Now == steps + 1

\* ------------------------------------------------------------ add_asset
\* the row written by add_asset's INSERT
AddAssetRow(id, tag, f, g, now) ==
  [ id |-> id, asset_tag |-> tag, glpi_id |-> g, category |-> f.cat,
    model |-> f.model, serial_number |-> f.serial, status |-> f.status,
    assigned_to |-> f.assigned, purchase_date |-> f.p_date, price |-> f.price,
    warranty_date |-> f.warranty, vendor |-> f.vendor,
    last_audit_date |-> Today, department |-> f.dept, specs |-> f.specs,
    last_updated |-> now ]

\* a table without the UNIQUE constraint
GlpiIdNeverExists(tbl, g) == FALSE

\* a duplicate-tag check that finds nothing
TagNeverExists(tbl, tag) == FALSE

\* "SELECT 1 FROM assets WHERE asset_tag=?" finds a row
TagExists(tbl, tag) == \E r \in tbl : SqlEq(r.asset_tag, tag)
\* the UNIQUE constraint on assets.glpi_id
GlpiIdExists(tbl, g) == \E r \in tbl : SqlEqId(r.glpi_id, g)

add_asset(tag, f, g) ==
  /\ Tick
  /\ UNCHANGED clientVars
  /\ IF \/ ~Truthy(f.model) \/ ~Truthy(Strip(f.model))
        \/ ~validate_price(f.price)
        \/ (Truthy(tag) /\ TagExists(assets, tag))
        \/ GlpiIdExists(assets, g)
     THEN /\ last' = Ret("add_asset", "False", tag, g)
          /\ UNCHANGED storeVars
     ELSE /\ assets' = assets \cup { AddAssetRow(nextId, tag, f, g, Now) }
          /\ nextId' = nextId + 1
          /\ history' = log_action(history, tag, "CREATE")
          /\ last' = Ret("add_asset", "True", tag, g)
          /\ UNCHANGED << recycle_bin, nextBinId, borrow_logs, maintenance_logs >>

\* --------------------------------------------------------- update_asset
\* the SET clause shared by both UPDATE statements of update_asset
UpdateSet(r, new_tag, f, now) ==
  [ r EXCEPT !.asset_tag = new_tag, !.category = f.cat, !.model = f.model,
             !.serial_number = f.serial, !.status = f.status,
             !.assigned_to = f.assigned, !.purchase_date = f.p_date,
             !.price = f.price, !.warranty_date = f.warranty,
             !.vendor = f.vendor, !.department = f.dept, !.specs = f.specs,
             !.last_updated = now ]

\* Priority 1: UPDATE ... WHERE glpi_id=?  (glpi_id itself is not in the SET)
UpdateByGlpiId(tbl, new_tag, f, g, now) ==
  { IF SqlEqId(r.glpi_id, g) THEN UpdateSet(r, new_tag, f, now) ELSE r : r \in tbl }

\* Priority 2: UPDATE ... , glpi_id=? WHERE asset_tag=?  with the glpi_id
\* argument, which is None on this branch
UpdateByOriginalTag(tbl, new_tag, f, g, original_tag, now) ==
  { IF SqlEq(r.asset_tag, original_tag)
      THEN [ UpdateSet(r, new_tag, f, now) EXCEPT !.glpi_id = g ]
      ELSE r : r \in tbl }

update_asset(new_tag, f, g, original_tag) ==
  /\ Tick
  /\ UNCHANGED clientVars
  /\ LET call == [ Ret("update_asset", "False", new_tag, g) EXCEPT !.orig = original_tag ]
     IN
     IF \/ ~Truthy(f.model) \/ ~Truthy(Strip(f.model))
        \/ ~validate_price(f.price)
        \/ (g = NullId /\ ~Truthy(original_tag))
     THEN /\ last' = call
          /\ UNCHANGED storeVars
     ELSE /\ assets' = IF g # NullId
                         THEN UpdateByGlpiId(assets, new_tag, f, g, Now)
                         ELSE UpdateByOriginalTag(assets, new_tag, f, g, original_tag, Now)
          /\ history' = log_action(history, new_tag, "UPDATE")
          /\ last' = [ call EXCEPT !.ret = "True" ]
          /\ UNCHANGED << recycle_bin, nextId, nextBinId, borrow_logs, maintenance_logs >>

\* ---------------------------------------------------------- soft_delete
\* the recycle_bin row written from the positional copy row[1] .. row[9]
BinRow(id, row, now) ==
  [ id |-> id, asset_tag |-> AssetCol(row, 1), glpi_id |-> AssetCol(row, 2),
    category |-> AssetCol(row, 3), model |-> AssetCol(row, 4),
    serial_number |-> AssetCol(row, 5), status |-> AssetCol(row, 6),
    assigned_to |-> AssetCol(row, 7), purchase_date |-> AssetCol(row, 8),
    price |-> AssetCol(row, 9), deleted_at |-> now ]

\* rows a "WHERE asset_tag=?" selects
ByTag(tbl, tag) == { r \in tbl : SqlEq(r.asset_tag, tag) }

\* a DELETE that removes nothing
DeleteNothing(tbl, tag) == tbl

\* DELETE FROM <table> WHERE asset_tag=?
DeleteByTag(tbl, tag) == tbl \ ByTag(tbl, tag)

soft_delete(tag) ==
  /\ Tick
  /\ UNCHANGED clientVars
  /\ IF Truthy(tag) /\ ByTag(assets, tag) # {}
     THEN \E row \in ByTag(assets, tag) :   \* fetchone(): no ORDER BY
            /\ last' = [ Ret("soft_delete", "None", tag, NullId) EXCEPT !.rows = { row } ]
            /\ recycle_bin' = recycle_bin \cup { BinRow(nextBinId, row, Now) }
            /\ nextBinId' = nextBinId + 1
            /\ assets' = DeleteByTag(assets, tag)
            /\ history' = log_action(history, tag, "DELETE")
            /\ UNCHANGED << nextId, borrow_logs, maintenance_logs >>
     ELSE /\ last' = Ret("soft_delete", "None", tag, NullId)
          /\ UNCHANGED storeVars

\* -------------------------------------------------------- restore_asset
\* the assets row written from the positional copy row[1] .. row[9]; the
\* columns the INSERT does not name take their defaults
RestoredRow(id, row, now) ==
  [ id |-> id, asset_tag |-> BinCol(row, 1), glpi_id |-> BinCol(row, 2),
    category |-> BinCol(row, 3), model |-> BinCol(row, 4),
    serial_number |-> BinCol(row, 5), status |-> BinCol(row, 6),
    assigned_to |-> BinCol(row, 7), purchase_date |-> BinCol(row, 8),
    price |-> BinCol(row, 9), warranty_date |-> NULL, vendor |-> NULL,
    last_audit_date |-> NULL, department |-> NULL, specs |-> NULL,
    last_updated |-> now ]

restore_asset(tag) ==
  /\ Tick
  /\ UNCHANGED clientVars
  /\ IF ByTag(recycle_bin, tag) = {}
     THEN /\ last' = Ret("restore_asset", "False", tag, NullId)
          /\ UNCHANGED storeVars
     ELSE \E row \in ByTag(recycle_bin, tag) :   \* fetchone(): no ORDER BY
            IF GlpiIdExists(assets, BinCol(row, 2))
            THEN \* sqlite3.IntegrityError: UNIQUE constraint failed: assets.glpi_id
                 /\ last' = Ret("restore_asset", "False", tag, BinCol(row, 2))
                 /\ UNCHANGED storeVars
            ELSE /\ assets' = assets \cup { RestoredRow(nextId, row, Now) }
                 /\ nextId' = nextId + 1
                 /\ recycle_bin' = DeleteByTag(recycle_bin, tag)
                 /\ last' = Ret("restore_asset", "True", tag, BinCol(row, 2))
                 /\ UNCHANGED << nextBinId, history, borrow_logs, maintenance_logs >>

\* ------------------------------------- borrow / return / repair / audit
\* UPDATE assets SET status=?, assigned_to=? WHERE asset_tag=?
SetStatus(tbl, tag, status, assigned) ==
  { IF SqlEq(r.asset_tag, tag)
      THEN [ r EXCEPT !.status = status, !.assigned_to = assigned ]
      ELSE r : r \in tbl }

BorrowLog(tag, borrower, action) ==
  [ asset_tag |-> tag, borrower_name |-> borrower, action |-> action ]

process_borrow(tag, borrower) ==
  /\ Tick
  /\ UNCHANGED clientVars
  /\ IF ~Truthy(tag) \/ ~Truthy(borrower) \/ ByTag(assets, tag) = {}
     THEN /\ last' = Ret("process_borrow", "False", tag, NullId)
          /\ UNCHANGED storeVars
     ELSE \E row \in ByTag(assets, tag) :   \* fetchone(): no ORDER BY
            IF row.status \in { "In Use", "Repair", "Lost" }
            THEN /\ last' = Ret("process_borrow", "False", tag, NullId)
                 /\ UNCHANGED storeVars
            ELSE /\ assets' = SetStatus(assets, tag, "In Use", borrower)
                 /\ borrow_logs' = Append(borrow_logs, BorrowLog(tag, borrower, "BORROW"))
                 /\ history' = log_action(history, tag, "BORROW")
                 /\ last' = Ret("process_borrow", "True", tag, NullId)
                 /\ UNCHANGED << recycle_bin, nextId, nextBinId, maintenance_logs >>

process_return(tag) ==
  /\ Tick
  /\ UNCHANGED clientVars
  /\ IF ~Truthy(tag)
     THEN /\ last' = Ret("process_return", "False", tag, NullId)
          /\ UNCHANGED storeVars
     ELSE /\ assets' = SetStatus(assets, tag, "In Stock", "")
          /\ borrow_logs' = Append(borrow_logs, BorrowLog(tag, "", "RETURN"))
          /\ history' = log_action(history, tag, "RETURN")
          /\ last' = Ret("process_return", "True", tag, NullId)
          /\ UNCHANGED << recycle_bin, nextId, nextBinId, maintenance_logs >>

send_repair(tag, vendor) ==
  /\ Tick
  /\ UNCHANGED clientVars
  /\ IF ~Truthy(tag) \/ ~Truthy(vendor)
     THEN /\ last' = Ret("send_repair", "False", tag, NullId)
          /\ UNCHANGED storeVars
     ELSE /\ assets' = SetStatus(assets, tag, "Repair", vendor)
          /\ maintenance_logs' =
               Append(maintenance_logs, [ asset_tag |-> tag, status |-> "In Repair" ])
          /\ history' = log_action(history, tag, "REPAIR_SEND")
          /\ last' = Ret("send_repair", "True", tag, NullId)
          /\ UNCHANGED << recycle_bin, nextId, nextBinId, borrow_logs >>

\* UPDATE maintenance_logs SET status='Completed' WHERE asset_tag=? AND status='In Repair'
CompleteRepairs(logs, tag) ==
  [ i \in DOMAIN logs |->
      IF logs[i].asset_tag = tag /\ logs[i].status = "In Repair"
        THEN [ logs[i] EXCEPT !.status = "Completed" ]
        ELSE logs[i] ]

finish_repair(tag) ==
  /\ Tick
  /\ UNCHANGED clientVars
  /\ IF ~Truthy(tag)
     THEN /\ last' = Ret("finish_repair", "False", tag, NullId)
          /\ UNCHANGED storeVars
     ELSE /\ assets' = SetStatus(assets, tag, "In Stock", "")
          /\ maintenance_logs' = CompleteRepairs(maintenance_logs, tag)
          /\ history' = log_action(history, tag, "REPAIR_FINISH")
          /\ last' = Ret("finish_repair", "True", tag, NullId)
          /\ UNCHANGED << recycle_bin, nextId, nextBinId, borrow_logs >>

\* UPDATE assets SET last_audit_date=?, last_updated=CURRENT_TIMESTAMP WHERE asset_tag=?
Audited(tbl, tag, now) ==
  { IF SqlEq(r.asset_tag, tag)
      THEN [ r EXCEPT !.last_audit_date = Today, !.last_updated = now ]
      ELSE r : r \in tbl }

audit_asset(tag) ==
  /\ Tick
  /\ UNCHANGED clientVars
  /\ last' = Ret("audit_asset", "None", tag, NullId)
  /\ IF ~Truthy(tag)
     THEN UNCHANGED storeVars
     ELSE /\ assets' = Audited(assets, tag, Now)
          /\ history' = log_action(history, tag, "AUDIT")
          /\ UNCHANGED << recycle_bin, nextId, nextBinId, borrow_logs, maintenance_logs >>

\* ------------------------------------------------------- GlpiApi client
\* the Content-Range header of the range=0-0 response, split at "/"
ContentRanges(n) == { << >>, << "items 0-0", "*" >>, << "items 0-0", Numeral(n) >>,
                      << Numeral(n) >> }
\* int(content_range.split('/')[-1]), or None when absent or unparsable
ParseContentRange(h) ==
  IF h = << >> THEN NoCount
  ELSE IF ParseInt(h[Len(h)]) = -1 THEN NoCount ELSE ParseInt(h[Len(h)])

\* a server that reads the end of the range as exclusive
PageExclusive(coll, start) ==
  SubSeq(coll, start + 1,
         IF start + page_size - 1 < Len(coll) THEN start + page_size - 1 ELSE Len(coll))

\* the records the server returns for range=start-(start+page_size-1)
Page(coll, start) ==
  SubSeq(coll, start + 1, IF start + page_size < Len(coll) THEN start + page_size ELSE Len(coll))

\* the answers the server may give to a page request starting at start:
\* the page, an HTTP error, or (past the end) the 400
\* ERROR_RANGE_EXCEED_TOTAL sentinel
Answers(coll, start) ==
  IF start < Len(coll) THEN { "ok", "error" } ELSE { "ok", "error", "sentinel" }

\* the submit handler of show_glpi_sync constructs a GlpiApi and calls
\* get_computers
SubmitFetch(coll) ==
  /\ Tick
  /\ steps <= FetchBy
  /\ remote' = coll
  /\ session_token' = NULL
  /\ computers' = << >>
  /\ total_count' = NoCount
  /\ range_start' = 0
  /\ n_requests' = 0
  /\ fetched' = NoFetch
  /\ gpc' = "init"
  /\ response' = "none"
  /\ last' = Ret("get_computers", "None", NULL, NullId)
  /\ UNCHANGED << storeVars, glpi_df >>

\* an error return that hands back the pages fetched so far
FetchErrorPartial ==
  /\ fetched' = [ computers |-> computers, none |-> FALSE, error |-> FALSE ]
  /\ gpc' = "kill"

\* get_computers returns (None, error_message)
FetchError ==
  /\ fetched' = [ computers |-> << >>, none |-> TRUE, error |-> TRUE ]
  /\ gpc' = "kill"

\* get_computers returns (computers, None)
FetchReturn(list) ==
  /\ fetched' = [ computers |-> list, none |-> FALSE, error |-> FALSE ]
  /\ gpc' = "kill"

\* init_session, called because session_token is None
InitSession(ok) ==
  /\ gpc = "init"
  /\ response' = IF ok THEN "ok" ELSE "error"
  /\ IF ok
     THEN /\ session_token' = "session"
          /\ gpc' = "probe"
          /\ UNCHANGED fetched
     ELSE /\ FetchError
          /\ UNCHANGED session_token
  /\ UNCHANGED << storeVars, pending, steps, last, remote, computers, total_count, range_start,
                  n_requests, glpi_df >>

\* the range=0-0 request that reads the total from Content-Range
Probe(answer, header) ==
  /\ gpc = "probe"
  /\ response' = answer
  /\ IF answer = "ok"
     THEN /\ total_count' = ParseContentRange(header)
          /\ IF ParseContentRange(header) = NoCount
             THEN gpc' = "fallback" /\ UNCHANGED fetched
             ELSE IF 0 < ParseContentRange(header)
                  THEN gpc' = "count" /\ UNCHANGED fetched
                  ELSE FetchReturn(computers)
     ELSE /\ FetchError
          /\ UNCHANGED total_count
  /\ UNCHANGED << storeVars, pending, steps, last, remote, session_token, computers, range_start,
                  n_requests, glpi_df >>

\* a count loop that runs to range_start = total_count inclusive
CountPageInclusive(answer) ==
  /\ gpc = "count"
  /\ response' = answer
  /\ n_requests' = n_requests + 1
  /\ IF answer = "ok"
     THEN /\ computers' = computers \o Page(remote, range_start)
          /\ range_start' = range_start + page_size
          /\ IF range_start + page_size <= total_count
             THEN gpc' = "count" /\ UNCHANGED fetched
             ELSE FetchReturn(computers \o Page(remote, range_start))
     ELSE /\ FetchError
          /\ UNCHANGED << computers, range_start >>
  /\ UNCHANGED << storeVars, pending, steps, last, remote, session_token, total_count, glpi_df >>

\* one iteration of "for range_start in range(0, total_count, page_size)"
CountPage(answer) ==
  /\ gpc = "count"
  /\ response' = answer
  /\ n_requests' = n_requests + 1
  /\ IF answer = "ok"
     THEN /\ computers' = computers \o Page(remote, range_start)
          /\ range_start' = range_start + page_size
          /\ IF range_start + page_size < total_count
             THEN gpc' = "count" /\ UNCHANGED fetched
             ELSE FetchReturn(computers \o Page(remote, range_start))
     ELSE /\ FetchError
          /\ UNCHANGED << computers, range_start >>
  /\ UNCHANGED << storeVars, pending, steps, last, remote, session_token, total_count, glpi_df >>

\* a fallback loop without the "len(data) < page_size" break
FallbackPageNoShortStop(answer) ==
  /\ gpc = "fallback"
  /\ response' = answer
  /\ n_requests' = n_requests + 1
  /\ IF answer = "sentinel"
     THEN /\ FetchReturn(computers)
          /\ UNCHANGED << computers, range_start >>
     ELSE IF answer = "error"
     THEN /\ FetchError
          /\ UNCHANGED << computers, range_start >>
     ELSE IF Page(remote, range_start) = << >>
     THEN /\ FetchReturn(computers)
          /\ UNCHANGED << computers, range_start >>
     ELSE /\ computers' = computers \o Page(remote, range_start)
          /\ range_start' = range_start + page_size
          /\ gpc' = "fallback"
          /\ UNCHANGED fetched
  /\ UNCHANGED << storeVars, pending, steps, last, remote, session_token, total_count, glpi_df >>

\* one iteration of the fallback "while True" loop
FallbackPage(answer) ==
  /\ gpc = "fallback"
  /\ response' = answer
  /\ n_requests' = n_requests + 1
  /\ IF answer = "sentinel"
     THEN /\ FetchReturn(computers)
          /\ UNCHANGED << computers, range_start >>
     ELSE IF answer = "error"
     THEN /\ FetchError
          /\ UNCHANGED << computers, range_start >>
     ELSE IF Page(remote, range_start) = << >>
     THEN /\ FetchReturn(computers)
          /\ UNCHANGED << computers, range_start >>
     ELSE /\ computers' = computers \o Page(remote, range_start)
          /\ IF Len(Page(remote, range_start)) < page_size
             THEN /\ FetchReturn(computers \o Page(remote, range_start))
                  /\ UNCHANGED range_start
             ELSE /\ range_start' = range_start + page_size
                  /\ gpc' = "fallback"
                  /\ UNCHANGED fetched
  /\ UNCHANGED << storeVars, pending, steps, last, remote, session_token, total_count, glpi_df >>

\* pd.DataFrame(computers): one column per key that occurs in some record,
\* NaN where a record lacks the key
DataFrame(list) ==
  [ i \in DOMAIN list |->
      [ k \in RemoteKeys |->
          IF list[i][k] = ABSENT /\ (\E j \in DOMAIN list : list[j][k] # ABSENT)
            THEN NAN
            ELSE list[i][k] ] ]

\* df['users_id'] = df['users_id'].astype(str), when the column exists
UsersAsStr(df) ==
  [ i \in DOMAIN df |->
      IF df[i].users_id = ABSENT THEN df[i]
      ELSE [ df[i] EXCEPT !.users_id = PyStr(df[i].users_id) ] ]

\* a kill_session that keeps the token when its request fails
KillSessionKeepsToken(answer) ==
  /\ gpc = "kill"
  /\ response' = IF session_token = NULL THEN response ELSE answer
  /\ session_token' = IF answer = "error" THEN session_token ELSE NULL
  /\ glpi_df' = IF fetched.error \/ fetched.none
                  THEN NoDf
                  ELSE [ none |-> FALSE, rows |-> UsersAsStr(DataFrame(fetched.computers)) ]
  /\ gpc' = "idle"
  /\ last' = Ret("get_computers", IF fetched.error THEN "False" ELSE "True", NULL, NullId)
  /\ remote' = << >>
  /\ computers' = << >>
  /\ total_count' = NoCount
  /\ range_start' = 0
  /\ n_requests' = 0
  /\ fetched' = NoFetch
  /\ UNCHANGED << storeVars, pending, steps >>

\* kill_session, then the rest of the submit handler: it stores the fetched
\* list as glpi_df, or None after an error; the handler's locals and the
\* GlpiApi object are gone when it ends.  kill_session sends its request
\* only when there is a session token
KillSession(answer) ==
  /\ gpc = "kill"
  /\ response' = IF session_token = NULL THEN response ELSE answer
  /\ session_token' = NULL
  /\ glpi_df' = IF fetched.error \/ fetched.none
                  THEN NoDf
                  ELSE [ none |-> FALSE, rows |-> UsersAsStr(DataFrame(fetched.computers)) ]
  /\ gpc' = "idle"
  /\ last' = Ret("get_computers", IF fetched.error THEN "False" ELSE "True", NULL, NullId)
  /\ remote' = << >>
  /\ computers' = << >>
  /\ total_count' = NoCount
  /\ range_start' = 0
  /\ n_requests' = 0
  /\ fetched' = NoFetch
  /\ UNCHANGED << storeVars, pending, steps >>

\* -------------------------------------------------------- sync_glpi_data
\* row.get(key, default)
Get(row, key, default) == IF row[key] = ABSENT THEN default ELSE row[key]

\* p_date.split(" ")[0]
SplitDate(s) ==
  CASE s = "2024-05-05 10:00:00" -> "2024-05-05"
    [] s = "2024-01-01 09:00:00" -> "2024-01-01"
    [] s = "2024-02-02 08:00:00" -> "2024-02-02"
    [] OTHER -> s

\* the "Data Mapping" block: the local values of one remote row
IsStr(v) == v # NULL /\ v # NAN /\ v # ABSENT
Mapped(row) ==
  LET p == Get(row, "date_mod", Get(row, "date_creation", NULL))
  IN [ glpi_id |-> ParseInt(Get(row, "id", NULL)),
       model |-> PyStr(Get(row, "computermodels_id", "")),
       serial |-> PyStr(Get(row, "serial", "")),
       category |-> PyStr(Get(row, "computertypes_id", "Other")),
       status |-> PyStr(Get(row, "states_id", "In Stock")),
       assigned_to |-> PyStr(Get(row, "users_id", "")),
       vendor |-> PyStr(Get(row, "manufacturers_id", "")),
       p_date |-> IF IsStr(p) /\ p # "" THEN SplitDate(p) ELSE NULL ]

\* SyncUpdate with price and department in the SET clause as well
SyncUpdateClobber(tbl, m, existing, now) ==
  { IF SqlEqId(r.glpi_id, m.glpi_id)
      THEN [ r EXCEPT !.category = m.category, !.model = m.model,
                      !.serial_number = m.serial, !.status = m.status,
                      !.assigned_to = m.assigned_to,
                      !.purchase_date = IF Truthy(m.p_date) THEN m.p_date
                                        ELSE AssetCol(existing, 8),
                      !.vendor = m.vendor, !.price = 0, !.department = "Common",
                      !.last_updated = now ]
      ELSE r : r \in tbl }

\* SyncUpdate without status and assigned_to in the SET clause
SyncUpdateKeepStatus(tbl, m, existing, now) ==
  { IF SqlEqId(r.glpi_id, m.glpi_id)
      THEN [ r EXCEPT !.category = m.category, !.model = m.model,
                      !.serial_number = m.serial,
                      !.purchase_date = IF Truthy(m.p_date) THEN m.p_date
                                        ELSE AssetCol(existing, 8),
                      !.vendor = m.vendor, !.last_updated = now ]
      ELSE r : r \in tbl }

\* the UPDATE of the "existing_by_id" branch
SyncUpdate(tbl, m, existing, now) ==
  { IF SqlEqId(r.glpi_id, m.glpi_id)
      THEN [ r EXCEPT !.category = m.category, !.model = m.model,
                      !.serial_number = m.serial, !.status = m.status,
                      !.assigned_to = m.assigned_to,
                      !.purchase_date = IF Truthy(m.p_date) THEN m.p_date
                                        ELSE AssetCol(existing, 8),
                      !.vendor = m.vendor, !.last_updated = now ]
      ELSE r : r \in tbl }

\* SyncInsertRow without the glpi_id column
SyncInsertRowNoId(id, m, now) ==
  [ id |-> id, asset_tag |-> NULL, glpi_id |-> NullId, category |-> m.category,
    model |-> m.model, serial_number |-> m.serial, status |-> m.status,
    assigned_to |-> m.assigned_to, purchase_date |-> m.p_date, price |-> 0,
    warranty_date |-> NULL, vendor |-> m.vendor, last_audit_date |-> Today,
    department |-> "Common", specs |-> "", last_updated |-> now ]

\* SyncInsertRow with the column defaults for department and specs
SyncInsertRowBare(id, m, now) ==
  [ id |-> id, asset_tag |-> NULL, glpi_id |-> m.glpi_id, category |-> m.category,
    model |-> m.model, serial_number |-> m.serial, status |-> m.status,
    assigned_to |-> m.assigned_to, purchase_date |-> m.p_date, price |-> 0,
    warranty_date |-> NULL, vendor |-> m.vendor, last_audit_date |-> Today,
    department |-> NULL, specs |-> NULL, last_updated |-> now ]

\* the row the INSERT of the "else" branch writes
SyncInsertRow(id, m, now) ==
  [ id |-> id, asset_tag |-> NULL, glpi_id |-> m.glpi_id, category |-> m.category,
    model |-> m.model, serial_number |-> m.serial, status |-> m.status,
    assigned_to |-> m.assigned_to, purchase_date |-> m.p_date, price |-> 0,
    warranty_date |-> NULL, vendor |-> m.vendor, last_audit_date |-> Today,
    department |-> "Common", specs |-> "", last_updated |-> now ]

\* SyncRow counting a row without a parsable identifier as an error
SyncRowCountSkips(acc, row, i, faults, now) ==
  LET m == Mapped(row)
      found == { r \in acc.assets : SqlEqId(r.glpi_id, m.glpi_id) }
  IN IF m.glpi_id = -1 THEN [ acc EXCEPT !.err = @ + 1 ]
     ELSE IF i \in faults THEN [ acc EXCEPT !.err = @ + 1 ]
     ELSE IF found # {}
       THEN [ acc EXCEPT !.assets = SyncUpdate(acc.assets, m, CHOOSE r \in found : TRUE, now),
                         !.upd = @ + 1 ]
       ELSE [ acc EXCEPT !.assets = @ \cup { SyncInsertRow(acc.nextId, m, now) },
                         !.nextId = @ + 1, !.ins = @ + 1 ]

\* the body of the for loop for row i of the batch; acc carries the table,
\* the AUTOINCREMENT counter and the three counters; faults are the
\* positions whose write statement raises
SyncRow(acc, row, i, faults, now) ==
  LET m == Mapped(row)
      found == { r \in acc.assets : SqlEqId(r.glpi_id, m.glpi_id) }
  IN IF m.glpi_id = -1 THEN acc
     ELSE IF i \in faults THEN [ acc EXCEPT !.err = @ + 1 ]
     ELSE IF found # {}
       THEN [ acc EXCEPT !.assets = SyncUpdate(acc.assets, m, CHOOSE r \in found : TRUE, now),
                         !.upd = @ + 1 ]
       ELSE [ acc EXCEPT !.assets = @ \cup { SyncInsertRow(acc.nextId, m, now) },
                         !.nextId = @ + 1, !.ins = @ + 1 ]

\* a loop that ends at the first write that raises
RECURSIVE SyncLoopAbort(_, _, _, _, _)
SyncLoopAbort(acc, df, i, faults, now) ==
  IF i > Len(df) THEN acc
  ELSE IF i \in faults /\ Mapped(df[i]).glpi_id # -1 THEN [ acc EXCEPT !.err = @ + 1 ]
  ELSE SyncLoopAbort(SyncRow(acc, df[i], i, faults, now), df, i + 1, faults, now)

RECURSIVE SyncLoop(_, _, _, _, _)
SyncLoop(acc, df, i, faults, now) ==
  IF i > Len(df) THEN acc
  ELSE SyncLoop(SyncRow(acc, df[i], i, faults, now), df, i + 1, faults, now)

\* sync_glpi_data(glpi_computers_df): the table and counters it leaves
sync_glpi_data(tbl, nid, df, faults, now) ==
  LET start == [ assets |-> tbl, nextId |-> nid, ins |-> 0, upd |-> 0, err |-> 0 ]
  IN IF df = << >> THEN start ELSE SyncLoop(start, df, 1, faults, now)

\* the "Sync GLPI Data to Local DB" button of show_glpi_sync
SyncButton(faults) ==
  /\ Tick
  /\ ~glpi_df.none /\ glpi_df.rows # << >>
  /\ LET res == sync_glpi_data(assets, nextId, glpi_df.rows, faults, Now)
     IN /\ assets' = res.assets
        /\ nextId' = res.nextId
        /\ last' = [ Ret("sync_glpi_data", "None", NULL, NullId)
                       EXCEPT !.ins = res.ins, !.upd = res.upd, !.err = res.err,
                              !.faults = faults,
                              !.streak = IF last.op = "sync_glpi_data"
                                           THEN last.streak + 1 ELSE 1 ]
  /\ UNCHANGED << recycle_bin, nextBinId, history, borrow_logs, maintenance_logs, clientVars >>

StoreNext ==
  \/ \E tag \in AddTags, f \in AddForms, g \in AddGlpiIds : add_asset(tag, f, g)
  \/ \E tag \in AddTags, f \in UpdateForms, g \in GlpiIds, o \in OrigTags :
       update_asset(tag, f, g, o)
  \/ \E tag \in Tags : soft_delete(tag)
  \/ \E tag \in Tags : restore_asset(tag)

WorkflowNext ==
  \/ \E tag \in WorkTags, b \in Borrowers : process_borrow(tag, b)
  \/ \E tag \in WorkTags : process_return(tag)
  \/ \E tag \in RepairTags, v \in Vendors : send_repair(tag, v)
  \/ \E tag \in RepairTags : finish_repair(tag)
  \/ \E tag \in RepairTags : audit_asset(tag)

ClientNext ==
  \/ \E coll \in RemoteCollections : SubmitFetch(coll)
  \/ \E ok \in BOOLEAN : InitSession(ok)
  \/ \E a \in Answers(remote, 0), h \in ContentRanges(Len(remote)) : Probe(a, h)
  \/ \E a \in Answers(remote, range_start) : CountPage(a)
  \/ \E a \in Answers(remote, range_start) : FallbackPage(a)
  \/ \E a \in { "ok", "error" } : KillSession(a)

\* the asset store, the GLPI client and the synchronizer
Next == StoreNext \/ ClientNext \/ SyncButton({})

Spec == Init /\ [][Next]_vars

\* the same with the borrow / return / repair / audit pages
NextAll == StoreNext \/ WorkflowNext \/ ClientNext \/ SyncButton({})

SpecAll == Init /\ [][NextAll]_vars

\* the same system with store errors: any write statement of a sync run may
\* raise
NextFault ==
  \/ StoreNext
  \/ ClientNext
  \/ \E faults \in SUBSET (DOMAIN glpi_df.rows) : SyncButton(faults)

SpecFault == Init /\ [][NextFault]_vars

\* the GLPI client alone; get_computers is a synchronous loop, so a running
\* fallback loop issues its next request
FallbackStep == \E a \in Answers(remote, range_start) : FallbackPage(a)

SpecFetch == Init /\ [][ClientNext]_vars /\ WF_vars(FallbackStep)

\* ------------------------------------------------ two operator sessions
\* add_asset as the statements of one session's script thread: the
\* validation and the duplicate-tag SELECT, then (another session's
\* statements may run in between) the INSERT, commit and log_action.  No
\* lock or transaction spans the two.
AddCheck(s, tag, f, g) ==
  /\ gpc = "idle"
  /\ pending[s].pc = "idle"
  /\ steps < MaxSteps
  /\ steps' = steps + 1
  /\ UNCHANGED << storeVars, clientVars >>
  /\ IF \/ ~Truthy(f.model) \/ ~Truthy(Strip(f.model))
        \/ ~validate_price(f.price)
        \/ (Truthy(tag) /\ TagExists(assets, tag))
     THEN /\ last' = Ret("add_asset", "False", tag, g)
          /\ UNCHANGED pending
     ELSE /\ pending' = [ pending EXCEPT ![s] = [ pc |-> "checked", tag |-> tag, f |-> f,
                                                  glpi_id |-> g ] ]
          /\ UNCHANGED last

AddWrite(s) ==
  /\ pending[s].pc = "checked"
  /\ pending' = [ pending EXCEPT ![s] = NoCall ]
  /\ UNCHANGED << steps, clientVars >>
  /\ LET c == pending[s]
     IN IF GlpiIdExists(assets, c.glpi_id)
        THEN /\ last' = Ret("add_asset", "False", c.tag, c.glpi_id)
             /\ UNCHANGED storeVars
        ELSE /\ assets' = assets \cup { AddAssetRow(nextId, c.tag, c.f, c.glpi_id, steps) }
             /\ nextId' = nextId + 1
             /\ history' = log_action(history, c.tag, "CREATE")
             /\ last' = Ret("add_asset", "True", c.tag, c.glpi_id)
             /\ UNCHANGED << recycle_bin, nextBinId, borrow_logs, maintenance_logs >>

NextSessions ==
  \/ \E s \in Sessions, tag \in AddTags, f \in AddForms, g \in AddGlpiIds : AddCheck(s, tag, f, g)
  \/ \E s \in Sessions : AddWrite(s)
  \/ \E tag \in Tags : soft_delete(tag)

SpecSessions == Init /\ [][NextSessions]_vars

\* ------------------------------------------------------ the borrow desk
\* an edit on the Manage form that puts the asset in use
FormInUse == [ FormEdit EXCEPT !.status = "In Use" ]

\* adding, editing and lending assets
NextBorrow ==
  \/ \E tag \in AddTags, g \in AddGlpiIds : add_asset(tag, FormOk, g)
  \/ \E tag \in AddTags, f \in { FormEdit, FormInUse }, g \in GlpiIds, o \in OrigTags :
       update_asset(tag, f, g, o)
  \/ \E tag \in WorkTags, b \in Borrowers : process_borrow(tag, b)
  \/ \E tag \in WorkTags : process_return(tag)

SpecBorrow == Init /\ [][NextBorrow]_vars

\* =================================================================== claims
\* a step of the "Sync GLPI Data" button, and the identifiers of its batch
SyncStep == last'.op = "sync_glpi_data" /\ steps' = steps + 1
Numerals == { "0", "1", "2", "3", "4", "5" }
BatchIds ==
            { glpi_df.rows[i].id : i \in { j \in DOMAIN glpi_df.rows : glpi_df.rows[j].id \in Numerals } }
IdText(g) == IF g \in 0 .. 5 THEN Numeral(g) ELSE "?"

\* C1: a sync run that processes a remote record with the external
\* identifier of an active record leaves that record's tag, price, warranty
\* date, department and specs as they were.
C1_OwnershipPreserved ==
  [][ SyncStep =>
        \A r \in assets :
          (r.glpi_id # NullId /\ IdText(r.glpi_id) \in BatchIds) =>
            \E q \in assets' :
              /\ q.id = r.id
              /\ q.asset_tag = r.asset_tag
              /\ q.price = r.price
              /\ q.warranty_date = r.warranty_date
              /\ q.department = r.department
              /\ q.specs = r.specs ]_vars

\* a tagged, priced record with identifier 1 after a sync run that updated
\* it from the remote record
C1_Witness ==
  /\ last.op = "sync_glpi_data" /\ last.upd > 0
  /\ \E r \in assets :
       /\ r.glpi_id = 1 /\ r.asset_tag = "A" /\ r.price = 500
       /\ r.department = "Finance" /\ r.specs = "8GB" /\ r.model = "ThinkPad"

\* a table without its last-modified column
WithoutStamp(tbl) == { [ r EXCEPT !.last_updated = 0 ] : r \in tbl }

C4_TagUnique ==
  \A r, q \in assets :
    (r.id # q.id /\ r.asset_tag # NULL /\ r.asset_tag # "") => r.asset_tag # q.asset_tag

C6_GlpiIdImmutable ==
  [][ \A r \in assets :
        r.glpi_id # NullId =>
          \A q \in assets' : q.id = r.id => q.glpi_id = r.glpi_id ]_vars

ParsablePositions == { i \in DOMAIN glpi_df.rows : glpi_df.rows[i].id \in Numerals }

\* C8: inserts + updates + errors of a sync run equals the number of remote
\* records with a parsable identifier; each of them causes at most one
\* store write; a batch without parsable identifiers changes nothing.
C8_CountAccounting ==
  [][ SyncStep =>
        /\ last'.ins + last'.upd + last'.err = Cardinality(ParsablePositions)
        /\ Cardinality(assets') = Cardinality(assets) + last'.ins
        /\ nextId' = nextId + last'.ins
        /\ Cardinality(assets' \ assets) <= last'.ins + last'.upd
        /\ (ParsablePositions = {} => assets' = assets)
        /\ recycle_bin' = recycle_bin ]_vars

\* a sync run over a batch with an identifier-less record, an insert and a
\* failed write
C8_Witness ==
  /\ last.op = "sync_glpi_data"
  /\ \E i \in DOMAIN glpi_df.rows : glpi_df.rows[i].id = NULL
  /\ last.ins = 1 /\ last.err = 1

\* C9: a failed write raises the error count by one and does not abort the
\* batch: every other record with an identifier is reconciled, and its row
\* is in the store, written by this run, when the run ends.
C9_FailureDoesNotAbort ==
  [][ SyncStep =>
        /\ last'.err = Cardinality(last'.faults \cap ParsablePositions)
        /\ \A i \in ParsablePositions \ last'.faults :
             \E r \in assets' :
               /\ IdText(r.glpi_id) = glpi_df.rows[i].id
               /\ r.last_updated = steps' ]_vars

\* the write for the first record failed, the second record was inserted
C9_Witness ==
  /\ last.op = "sync_glpi_data" /\ last.faults = { 1 }
  /\ Len(glpi_df.rows) = 2 /\ glpi_df.rows[1].id = "1" /\ glpi_df.rows[2].id = "2"
  /\ last.err = 1 /\ last.ins = 1
  /\ \E r \in assets : r.glpi_id = 2 /\ r.last_updated = steps

\* a step of get_computers in which the session request or a page request
\* fails
RequestFails ==
  \/ InitSession(FALSE)
  \/ \E h \in ContentRanges(Len(remote)) : Probe("error", h)
  \/ \E a \in { "error", "sentinel" } : CountPage(a)
  \/ FallbackPage("error")

\* C10: when the session request or a page request fails, get_computers
\* returns an error with no records, the page keeps no batch to reconcile,
\* and no step of the fetch changes the local store.
C10_FetchFailureAborts ==
  /\ [][ RequestFails => (fetched'.error /\ fetched'.none /\ fetched'.computers = << >>) ]_vars
  /\ [][ (gpc = "kill" /\ gpc' = "idle" /\ fetched.error) =>
           glpi_df'.none ]_vars
  /\ [](glpi_df.none => ~ENABLED SyncButton({}))
  /\ [][ (gpc # "idle" \/ gpc' # "idle") =>
           ( /\ assets' = assets /\ recycle_bin' = recycle_bin
             /\ history' = history /\ borrow_logs' = borrow_logs ) ]_vars

\* the second page request failed after a full first page, with a record in
\* the local store
C10_Witness ==
  /\ gpc = "kill" /\ fetched.error /\ n_requests = 2 /\ Len(computers) = 2
  /\ assets # {}

\* the step in which get_computers returns (computers, None)
ReturnsList == gpc # "kill" /\ gpc' = "kill" /\ ~fetched'.error

\* C11: the list get_computers returns is the remote collection, record by
\* record: N records, none twice, none missing, whether the total came from
\* the Content-Range header or the fallback paging was used.
C11_PaginationComplete ==
  [][ ReturnsList =>
        /\ Len(fetched'.computers) = Len(remote)
        /\ \A i \in DOMAIN remote : fetched'.computers[i] = remote[i] ]_vars

\* a count-based fetch of three records in two pages has returned
C11_Witness ==
  /\ gpc = "kill" /\ ~fetched.error /\ ~fetched.none
  /\ total_count = 3 /\ Len(remote) = 3 /\ n_requests = 2
  /\ fetched.computers = remote

\* ceil(n / page_size)
CeilPages(n) == (n + page_size - 1) \div page_size

\* C19: get_computers issues exactly ceil(N/P) page requests under either
\* strategy.
C19_CeilRequests ==
  [][ ReturnsList => n_requests' = CeilPages(Len(remote)) ]_vars

\* C19 as amended: after the range=0-0 count request, the count-based
\* strategy issues exactly ceil(N/P) page requests; the fallback strategy
\* issues floor(N/P) + 1, which is ceil(N/P) unless N is a multiple of P
\* (0 included), where it needs one more request to see the end.
C19_RequestCount ==
  [][ ReturnsList =>
        IF total_count' # NoCount
          THEN n_requests' = CeilPages(Len(remote))
          ELSE n_requests' = (Len(remote) \div page_size) + 1 ]_vars

\* a fallback fetch of a collection of exactly one full page has returned
\* after a second request
C19_Witness ==
  /\ gpc = "kill" /\ ~fetched.error /\ ~fetched.none
  /\ total_count = NoCount /\ Len(remote) = page_size /\ n_requests = 2
  /\ Len(fetched.computers) = page_size

\* a page request of the fallback loop
FallbackRequest == gpc = "fallback" /\ n_requests' = n_requests + 1

\* C20: the fallback loop ends at the first request answered with the
\* sentinel, an empty page or a short page (a full page is the only answer
\* after which it goes on), no request follows the return, and a running
\* fallback loop eventually returns.
C20_FallbackTerminates ==
  /\ [][ (FallbackRequest /\ Len(Page(remote, range_start)) < page_size) =>
           ( /\ gpc' = "kill"
             /\ ~fetched'.error => fetched'.computers = computers \o Page(remote, range_start) ) ]_vars
  /\ [][ (FallbackRequest /\ gpc' = "fallback") =>
           ( /\ Len(Page(remote, range_start)) = page_size
             /\ range_start' = range_start + page_size
             /\ range_start' <= Len(remote) ) ]_vars
  /\ [][ (gpc = "kill" \/ gpc = "idle") => (n_requests' = n_requests \/ n_requests' = 0) ]_vars
  /\ ((gpc = "fallback") ~> (gpc = "kill"))

\* a fallback fetch of three records has returned after a full and a short
\* page
C20_Witness ==
  /\ gpc = "kill" /\ ~fetched.error /\ ~fetched.none
  /\ total_count = NoCount /\ Len(remote) = 3 /\ n_requests = 2
  /\ range_start = page_size /\ fetched.computers = remote

\* a step of one store handler, named by the record of the call
Called(op) == last'.op = op /\ steps' = steps + 1

\* C12: soft_delete for a tag that resolves to no active record reports a
\* failure to its caller and leaves the active store and the archive as they
\* were.
C12_DeleteNotFoundReported ==
  [][ ( /\ Called("soft_delete")
        /\ ~\E r \in assets :
              last'.tag # NULL /\ last'.tag # "" /\ r.asset_tag = last'.tag )
      => ( /\ last'.ret = "False"
           /\ assets' = assets
           /\ recycle_bin' = recycle_bin ) ]_vars

\* the archived records restore_asset(tag) may pick
Archived(tag) == { b \in recycle_bin : tag # NULL /\ b.asset_tag = tag }
\* restoring b would give the active store a second record with b's tag or
\* external identifier
RestoreConflicts(b) ==
  \/ \E a \in assets : b.asset_tag # NULL /\ b.asset_tag # "" /\ a.asset_tag = b.asset_tag
  \/ \E a \in assets : b.glpi_id # NullId /\ a.glpi_id = b.glpi_id

\* C13: restore_asset fails and leaves the active store and the archive
\* unchanged whenever the archived record's tag or external identifier is
\* already on an active record.
C13_RestoreConflictRejected ==
  [][ ( /\ Called("restore_asset")
        /\ Archived(last'.tag) # {}
        /\ \A b \in Archived(last'.tag) : RestoreConflicts(b) )
      => ( /\ last'.ret = "False"
           /\ assets' = assets
           /\ recycle_bin' = recycle_bin ) ]_vars

\* C14: update_asset aimed at an external identifier, or else at a current
\* tag, that no active record has returns failure, writes nothing to the
\* asset store and appends no history entry.
C14_UpdateNotFoundFails ==
  [][ ( /\ Called("update_asset")
        /\ \/ /\ last'.glpi_id # NullId
              /\ ~\E r \in assets : r.glpi_id = last'.glpi_id
           \/ /\ last'.glpi_id = NullId
              /\ last'.orig # NULL /\ last'.orig # ""
              /\ ~\E r \in assets : r.asset_tag = last'.orig )
      => ( /\ last'.ret = "False"
           /\ assets' = assets
           /\ history' = history ) ]_vars

BatchRow(i) == glpi_df.rows[i]
\* record q carries the remote-owned values that remote row has
CarriesRemote(q, row) ==
  /\ IsStr(row.computertypes_id) => q.category = row.computertypes_id
  /\ IsStr(row.computermodels_id) => q.model = row.computermodels_id
  /\ IsStr(row.serial) => q.serial_number = row.serial
  /\ IsStr(row.states_id) => q.status = row.states_id
  /\ IsStr(row.users_id) => q.assigned_to = row.users_id
  /\ IsStr(row.manufacturers_id) => q.vendor = row.manufacturers_id
\* the positions whose identifier no active record has before the run
NewPositions ==
  { i \in ParsablePositions :
      ~\E r \in assets : r.glpi_id # NullId /\ IdText(r.glpi_id) = BatchRow(i).id }

\* C16: for a remote record whose identifier no active record has, a sync
\* run leaves exactly one active record with that identifier; it is new,
\* carries the remote-owned values, has no tag, price 0, department
\* "Common" and empty specs; the run counts one insert per such identifier.
C16_SyncInsertsNew ==
  [][ SyncStep =>
        /\ \A i \in NewPositions :
             LET new == { q \in assets' : q.glpi_id # NullId /\ IdText(q.glpi_id) = BatchRow(i).id }
             IN /\ Cardinality(new) = 1
                /\ \A q \in new :
                     /\ q.id >= nextId
                     /\ q.asset_tag = NULL
                     /\ q.price = 0
                     /\ q.department = "Common"
                     /\ q.specs = ""
                     /\ CarriesRemote(q, BatchRow(i))
                     /\ IsStr(BatchRow(i).date_mod) =>
                          q.purchase_date = SplitDate(BatchRow(i).date_mod)
        /\ last'.ins = Cardinality({ BatchRow(i).id : i \in NewPositions }) ]_vars

\* a sync run into a store that held one local record inserted the remote
\* record 1
C16_Witness ==
  /\ last.op = "sync_glpi_data" /\ last.ins = 1 /\ last.upd = 0
  /\ Len(glpi_df.rows) = 1
  /\ \E r \in assets : r.asset_tag = "A" /\ r.glpi_id = NullId
  /\ \E q \in assets :
       /\ q.glpi_id = 1 /\ q.asset_tag = NULL /\ q.price = 0
       /\ q.department = "Common" /\ q.specs = "" /\ q.model = "ThinkPad"
       /\ q.purchase_date = "2024-05-05" /\ q.last_updated = steps

\* the positions a run without store errors counts as updates: the
\* identifier is on an active record, or occurred earlier in the batch
UpdatePositions ==
  { i \in ParsablePositions :
      \/ i \notin NewPositions
      \/ \E j \in ParsablePositions : j < i /\ BatchRow(j).id = BatchRow(i).id }

EmptyModelPositions ==
  { i \in ParsablePositions : BatchRow(i).computermodels_id = "" }

\* C18: a remote record with a parsable identifier and an empty model is
\* not written by sync and is counted as an error.
C18_EmptyModelRejected ==
  [][ SyncStep =>
        /\ \A i \in EmptyModelPositions :
             ~\E q \in assets' :
                /\ q.glpi_id # NullId /\ IdText(q.glpi_id) = BatchRow(i).id
                /\ q.last_updated = steps'
        /\ last'.err >= Cardinality(EmptyModelPositions) ]_vars

\* C21: get_computers returns an error exactly when a request fails with
\* something other than the range-exceeds-total sentinel; a sentinel answer
\* to the probe, to a count-based page or to a fallback page request ends
\* the fetch without an error.
C21_ErrorIffNonSentinelFailure ==
  [][ (gpc \in { "init", "probe", "count", "fallback" } /\ gpc' # gpc) =>
        /\ response' = "error" => (gpc' = "kill" /\ fetched'.error)
        /\ response' = "sentinel" => (gpc' = "kill" /\ ~fetched'.error /\ ~fetched'.none)
        /\ fetched'.error => response' = "error" ]_vars

\* C22: kill_session never passes a failure of its request on (the submit
\* handler goes on and keeps what was fetched), the client holds no session
\* token after it whether the request succeeded or failed, and the next
\* get_computers starts without a token and opens a session of its own.
C22_KillSessionBestEffort ==
  /\ [][ (gpc = "kill" /\ gpc' = "idle") =>
           /\ session_token' = NULL
           /\ glpi_df'.none = (fetched.error \/ fetched.none)
           /\ ~glpi_df'.none => Len(glpi_df'.rows) = Len(fetched.computers) ]_vars
  /\ [](gpc \in { "idle", "init" } => session_token = NULL)
  /\ [][ (gpc = "init" /\ gpc' = "probe") => (session_token' = "session" /\ response' = "ok") ]_vars
  /\ [][ gpc' = "probe" => gpc \in { "init", "probe" } ]_vars

\* the killSession request failed after a fetch that returned two records;
\* the records are kept and the token is gone
C22_Witness ==
  /\ gpc = "idle" /\ response = "error" /\ session_token = NULL
  /\ last.op = "get_computers" /\ last.ret = "True"
  /\ ~glpi_df.none /\ Len(glpi_df.rows) = 2

\* a soft_delete step that moves active record r to the archive
ArchiveStep(r) ==
  \E tag \in Tags :
    /\ soft_delete(tag)
    /\ \A q \in assets' : q.id # r.id
    /\ \E b \in recycle_bin' \ recycle_bin :
         /\ b.asset_tag = r.asset_tag /\ b.glpi_id = r.glpi_id
         /\ b.model = r.model /\ b.price = r.price

\* C23: from every active record, tagged or untagged, there is a
\* soft_delete step that moves it to the archive (whenever the operator
\* can act at all).
C23_ArchiveFromAnyActive ==
  \A r \in assets :
    (gpc = "idle" /\ steps < MaxSteps) => ENABLED ArchiveStep(r)

\* C24: add_asset without an external identifier and with an empty or
\* absent tag is rejected and inserts nothing, so every untagged active
\* record has an external identifier.
C24_LocalEntryNeedsTag ==
  /\ [][ ( /\ Called("add_asset")
           /\ last'.glpi_id = NullId
           /\ (last'.tag = NULL \/ last'.tag = "") )
         => (last'.ret = "False" /\ assets' = assets) ]_vars
  /\ [](\A r \in assets :
          (r.asset_tag = NULL \/ r.asset_tag = "") => r.glpi_id # NullId)

\* C25: at most one write-bearing operation is in flight at a time: no
\* session is between the check and the write of its add_asset while
\* another session is.
C25_OneWriterInFlight ==
  Cardinality({ s \in Sessions : pending[s].pc # "idle" }) <= 1

\* C26: update_asset called as the Manage page calls it (the asset's tag
\* and the edited fields, neither glpi_id nor original_tag) for an existing
\* active asset returns success, and the record with that tag carries the
\* edited values.
C26_ManageEditWorks ==
  [][ ( /\ update_asset("A", FormEdit, NullId, NULL)
        /\ \E r \in assets : r.asset_tag = "A" )
      => ( /\ last'.ret = "True"
           /\ \E q \in assets' :
                /\ q.asset_tag = "A"
                /\ q.model = FormEdit.model /\ q.category = FormEdit.cat
                /\ q.status = FormEdit.status /\ q.price = FormEdit.price
                /\ q.department = FormEdit.dept /\ q.specs = FormEdit.specs ) ]_vars

\* C27: a soft_delete that archives removes exactly one active record and
\* adds exactly one archived record; a successful restore_asset removes
\* exactly one archived record and adds exactly one active record.
C27_MoveConservesRecords ==
  /\ [][ (Called("soft_delete") /\ recycle_bin' # recycle_bin) =>
           /\ Cardinality(assets') = Cardinality(assets) - 1
           /\ Cardinality(recycle_bin') = Cardinality(recycle_bin) + 1 ]_vars
  /\ [][ (Called("restore_asset") /\ last'.ret = "True") =>
           /\ Cardinality(assets') = Cardinality(assets) + 1
           /\ Cardinality(recycle_bin') = Cardinality(recycle_bin) - 1 ]_vars

\* C28: restore_asset(tag) right after soft_delete(tag) yields an active
\* record with the tag, external identifier, remote-owned fields and
\* locally-owned fields of the record soft_delete archived.
C28_ArchiveRestoreRoundTrip ==
  [][ ( /\ Called("restore_asset")
        /\ last.op = "soft_delete" /\ last.tag = last'.tag
        /\ last.rows # {} )
      => \A r \in last.rows :
           \E q \in assets' \ assets :
             /\ q.asset_tag = r.asset_tag /\ q.glpi_id = r.glpi_id
             /\ q.category = r.category /\ q.model = r.model
             /\ q.serial_number = r.serial_number /\ q.status = r.status
             /\ q.assigned_to = r.assigned_to /\ q.purchase_date = r.purchase_date
             /\ q.price = r.price /\ q.warranty_date = r.warranty_date
             /\ q.vendor = r.vendor /\ q.department = r.department
             /\ q.specs = r.specs ]_vars

\* C29: process_return for a tag no active record has returns failure,
\* appends no borrow log entry and no history entry and changes no asset.
C29_ReturnUnknownFails ==
  [][ ( /\ Called("process_return")
        /\ ~\E r \in assets : last'.tag # NULL /\ r.asset_tag = last'.tag )
      => ( /\ last'.ret = "False"
           /\ borrow_logs' = borrow_logs
           /\ history' = history
           /\ assets' = assets ) ]_vars

\* the statuses in which an asset cannot be borrowed, and the active
\* records a tag selects
Unavailable == { "In Use", "Repair", "Lost" }
Tagged(tag) == { r \in assets : tag # NULL /\ tag # "" /\ r.asset_tag = tag }

\* C30: process_borrow changes the asset store or the borrow log only when
\* the tagged asset exists and is not In Use, in Repair or Lost; then the
\* asset becomes In Use with the borrower as assignee and one BORROW entry
\* is appended; in every other case the call fails and changes neither.
C30_BorrowGuarded ==
  [][ Called("process_borrow") =>
        LET rows == Tagged(last'.tag)
            free == rows # {} /\ \A r \in rows : r.status \notin Unavailable
        IN /\ ~free => ( /\ last'.ret = "False"
                         /\ assets' = assets
                         /\ borrow_logs' = borrow_logs )
           /\ last'.ret = "False" => (assets' = assets /\ borrow_logs' = borrow_logs)
           /\ last'.ret = "True" =>
                \E b \in Borrowers \ { "" } :
                  /\ assets' = { IF r \in rows
                                   THEN [ r EXCEPT !.status = "In Use", !.assigned_to = b ]
                                   ELSE r : r \in assets }
                  /\ borrow_logs' =
                       Append(borrow_logs, [ asset_tag |-> last'.tag, borrower_name |-> b,
                                             action |-> "BORROW" ]) ]_vars
====
